---- MODULE Spec2Model ----
(***************************************************************************)
(* Model of src/app.py: the Streamlit shell of "Flavour Fusion" and its    *)
(* one function, generate_recipe_blog.                                     *)
(*                                                                         *)
(* A Python string is a sequence of atoms (TLA+ strings): the fixed pieces *)
(* of the f-strings are one atom each, the variable pieces (exception      *)
(* messages, response text, topic, digits) are sequences of small atoms.   *)
(* `in`, startswith and lower() are computed on these sequences.           *)
(*                                                                         *)
(* The script body is run top to bottom on every interaction; pc is the    *)
(* position in the script, or in generate_recipe_blog while it is called.  *)
(***************************************************************************)
EXTENDS Integers, Sequences, FiniteSets, TLC

VARIABLES
    api_key,          \* st.text_input "Enter your Google API Key:"
    recipe_topic,     \* st.text_input "Enter the Recipe Topic"
    word_count,       \* st.number_input "Desired Word Count"
    generate_button,  \* st.button: TRUE in the run the press triggered
    ui,               \* elements displayed by this run of the script, in order
    config,           \* process-wide client configuration set by genai.configure
    pc,               \* position in the script / in generate_recipe_blog
    model_name,       \* local of generate_recipe_blog, Unbound until line 17
    prompt,           \* the prompt handed to generate_content
    resp,             \* what each read of the response object produced
    exc,              \* the exception caught by the outer handler (its str())
    raised_at,        \* the step whose failure reached the outer handler
    ret,              \* the string generate_recipe_blog returned
    outcome,          \* "none", "returned" or "raised" (exception left the call)
    invoked,          \* generate_recipe_blog was called in this run
    ui_at_call,       \* ui when generate_recipe_blog was entered
    config_at_call    \* config when generate_recipe_blog was entered

vars == <<api_key, recipe_topic, word_count, generate_button, ui, config, pc,
          model_name, prompt, resp, exc, raised_at, ret, outcome, invoked,
          ui_at_call, config_at_call>>

----------------------------------------------------------------------------
(* Bounds and input sets *)

MaxMsgLen == 4      \* atoms in an exception message
MaxTextLen == 2     \* atoms in a response text or a part's text

MinWordCount == 150
MaxWordCount == 3000
DefaultWordCount == 600

SeqsUpTo(S, n) == UNION {[1..k -> S] : k \in 0..n}

MsgAtoms == {"API key not valid", "Permission", "404", "models/"}
Msgs == SeqsUpTo(MsgAtoms, MaxMsgLen)

TextAtoms == {"Error:", "Warning:", "## Cake"}
Texts == SeqsUpTo(TextAtoms, MaxTextLen)

Keys == {"", "AIza-key"}
Topics == {<<>>, <<"Cake">>, <<"7", "Cake">>}
WordCounts == {MinWordCount, DefaultWordCount, 2905, MaxWordCount}
ReasonNames == {"SAFETY", "OTHER"}

Unset == "<unset>"
Unbound == "<unbound>"

----------------------------------------------------------------------------
(* Python string operations *)

\* `sub in s`
Contains(sub, s) ==
    \E i \in 1..(Len(s) - Len(sub) + 1) : SubSeq(s, i, i + Len(sub) - 1) = sub

\* s.startswith(pre)
StartsWith(s, pre) == Len(s) >= Len(pre) /\ SubSeq(s, 1, Len(pre)) = pre

LowerAtom(a) ==
    CASE a = "Permission" -> "permission"
      [] a = "API key not valid" -> "api key not valid"
      [] a = "Error:" -> "error:"
      [] a = "Warning:" -> "warning:"
      [] OTHER -> a

\* s.lower()
Lower(s) == [i \in 1..Len(s) |-> LowerAtom(s[i])]

Digits == <<"0", "1", "2", "3", "4", "5", "6", "7", "8", "9">>

\* format(n, "") of a non-negative int, as an f-string field renders it
RECURSIVE Str(_)
Str(n) == IF n < 10 THEN <<Digits[n + 1]>>
          ELSE Str(n \div 10) \o <<Digits[(n % 10) + 1]>>

----------------------------------------------------------------------------
(* The strings generate_recipe_blog builds *)

ModelName == "gemini-1.5-pro-latest"

P1 == "You are an expert food blogger ... **Topic:** "
P2 == " **Approximate Word Count:** "
P3 == " words **Instructions:** 1. ... 8. **Length:** Ensure the total content is close to the requested "
P4 == " words. 9. **Formatting:** ... **Generate the blog post now:**"

BuildPromptNoFormat(topic, wc) ==
    <<P1, "{topic}", P2, "{word_count}", P3, "{word_count}", P4>>

\* the f-string of lines 23-42
BuildPrompt(topic, wc) ==
    <<P1>> \o topic \o <<P2>> \o Str(wc) \o <<P3>> \o Str(wc) \o <<P4>>

PartialWarningNoText(reason, text) ==
    <<"Warning:", " Content generation issue (Reason: ">> \o reason
        \o <<"). Partial content (if any): ">>

\* line 61
PartialWarning(reason, text) ==
    <<"Warning:", " Content generation issue (Reason: ">> \o reason
        \o <<"). Partial content (if any): ">> \o text

BlockedErrorNoReason(reason) ==
    <<"Error:", " Content generation failed or was blocked (Reason: ">>
        \o <<"). No content available.">>

\* line 63
BlockedError(reason) ==
    <<"Error:", " Content generation failed or was blocked (Reason: ">> \o reason
        \o <<"). No content available.">>

\* line 66
ParseError(e) ==
    <<"Error:", " Could not parse the response content. Details: ">> \o e

\* line 72
GenericError(e) ==
    <<"Error:", " An unexpected error occurred during generation. Details: ">> \o e

\* line 74
InvalidKeyError ==
    <<"Error:", " The provided Google API Key is invalid. Please check and try again.">>

\* line 76
PermissionError ==
    <<"Error:", " API key valid, but might lack permissions for the Gemini API. Please check your Google Cloud Project settings.">>

\* line 78
ModelNotFoundError(mn, e) ==
    <<"Error:", " Model '", mn, "' not found or inaccessible with your API key/region. Try alternatives like 'gemini-1.0-pro' or check available models in Google AI Studio. Original error: ">> \o e

Returns(s) == [raised |-> FALSE, value |-> s]
RaisesNameError == [raised |-> TRUE, value |-> <<>>]

ErrorMessagePermissionFirst(e, mn) ==
    IF Contains(<<"permission">>, Lower(e)) THEN Returns(PermissionError)
    ELSE IF Contains(<<"API key not valid">>, e) THEN Returns(InvalidKeyError)
    ELSE IF Contains(<<"404">>, e) /\ Contains(<<"models/">>, e)
         THEN IF mn = Unbound THEN RaisesNameError
              ELSE Returns(ModelNotFoundError(mn, e))
    ELSE Returns(GenericError(e))

ErrorMessageNoModelCheck(e, mn) ==
    IF Contains(<<"API key not valid">>, e) THEN Returns(InvalidKeyError)
    ELSE IF Contains(<<"permission">>, Lower(e)) THEN Returns(PermissionError)
    ELSE Returns(GenericError(e))

\* lines 72-80: the classification of the caught exception by its text.
\* The third arm reads model_name, which is unbound when genai.configure
\* (line 12) was the step that raised: the f-string then raises
\* UnboundLocalError inside the handler, and nothing catches it.
ErrorMessage(e, mn) ==
    IF Contains(<<"API key not valid">>, e) THEN Returns(InvalidKeyError)
    ELSE IF Contains(<<"permission">>, Lower(e)) THEN Returns(PermissionError)
    ELSE IF Contains(<<"404">>, e) /\ Contains(<<"models/">>, e)
         THEN IF mn = Unbound THEN RaisesNameError
              ELSE Returns(ModelNotFoundError(mn, e))
    ELSE Returns(GenericError(e))

TextResultTruthy(t) ==
    CASE t.kind = "ok" /\ t.value # <<>> -> [next |-> "returned", value |-> t.value]
      [] t.kind = "ok" /\ t.value = <<>> ->
            [next |-> "returned", value |-> BlockedError(<<"Unknown">>)]
      [] t.kind = "ValueError" -> [next |-> "g_reason", value |-> <<>>]
      [] OTHER -> [next |-> "returned", value |-> ParseError(t.value)]

\* lines 47-50, 64-66: what the inner try does with the read of response.text
TextResult(t) ==
    CASE t.kind = "ok" -> [next |-> "returned", value |-> t.value]
      [] t.kind = "ValueError" -> [next |-> "g_reason", value |-> <<>>]
      [] OTHER -> [next |-> "returned", value |-> ParseError(t.value)]

----------------------------------------------------------------------------
(* Streamlit elements *)

ShowReplacing(u, kind, body) == <<[kind |-> kind, body |-> body]>>

\* st.info / st.warning / st.error / st.markdown / ...: one more element
Show(u, kind, body) == Append(u, [kind |-> kind, body |-> body])

ShellBranchNoTopicCheck(button, key, topic) ==
    IF ~button THEN "skip"
    ELSE IF key = "" THEN "warn_key"
    ELSE "call"

\* lines 98-103: the guards in front of the call
ShellBranch(button, key, topic) ==
    IF ~button THEN "skip"
    ELSE IF key = "" THEN "warn_key"
    ELSE IF topic = <<>> THEN "warn_topic"
    ELSE "call"

\* lines 110-119: how the shell styles the returned string
ResultElement(blog_content) ==
    IF blog_content # <<>>
       /\ (StartsWith(blog_content, <<"Error:">>) \/ StartsWith(blog_content, <<"Warning:">>))
    THEN IF StartsWith(blog_content, <<"Error:">>)
         THEN [kind |-> "error", body |-> blog_content]
         ELSE [kind |-> "warning", body |-> blog_content]
    ELSE IF blog_content # <<>>
    THEN [kind |-> "markdown", body |-> blog_content]
    ELSE [kind |-> "error", body |-> <<"Error:", " Received empty content from the API.">>]

----------------------------------------------------------------------------
(* State *)

Unread == [kind |-> "unread", value |-> <<>>]
NoResponse == [text |-> Unread, reason |-> Unread, parts |-> Unread]

Init ==
    /\ api_key = ""
    /\ recipe_topic = <<>>
    /\ word_count = DefaultWordCount
    /\ generate_button = FALSE
    /\ ui = <<>>
    /\ config = Unset
    /\ pc = "start"
    /\ model_name = Unbound
    /\ prompt = <<>>
    /\ resp = NoResponse
    /\ exc = <<>>
    /\ raised_at = "none"
    /\ ret = <<>>
    /\ outcome = "none"
    /\ invoked = FALSE
    /\ ui_at_call = <<>>
    /\ config_at_call = Unset

inputs == <<api_key, recipe_topic, word_count, generate_button>>
locals == <<model_name, prompt, resp, exc, raised_at, ret, outcome>>
callsnap == <<invoked, ui_at_call, config_at_call>>

\* an exception with text msg, raised at `step`, reaches `except Exception as e`
ToHandler(step, msg) ==
    /\ exc' = msg
    /\ raised_at' = step
    /\ pc' = "g_except"

----------------------------------------------------------------------------
(* The script *)

\* lines 84-95: title, introduction and the input widgets
Render ==
    /\ pc = "start"
    /\ ui' = Show(Show(ui, "title", <<"Flavour Fusion: AI-Driven Recipe Blogging">>),
                  "markdown", <<"Generate unique recipe blog posts ...">>)
    /\ pc' = "output"
    /\ UNCHANGED <<inputs, config, locals, callsnap>>

\* lines 98-106: the output area up to the call of generate_recipe_blog
OutputArea ==
    /\ pc = "output"
    /\ LET b == ShellBranch(generate_button, api_key, recipe_topic) IN
       CASE b = "skip" ->
              /\ pc' = "footer"
              /\ UNCHANGED <<ui, callsnap>>
         [] b = "warn_key" ->
              /\ ui' = Show(ui, "warning", <<"Please enter your Google API Key.">>)
              /\ pc' = "footer"
              /\ UNCHANGED callsnap
         [] b = "warn_topic" ->
              /\ ui' = Show(ui, "warning", <<"Please enter a recipe topic.">>)
              /\ pc' = "footer"
              /\ UNCHANGED callsnap
         [] OTHER ->
              /\ invoked' = TRUE
              /\ ui_at_call' = ui
              /\ config_at_call' = config
              /\ pc' = "g_configure"
              /\ UNCHANGED ui
    /\ UNCHANGED <<inputs, config, locals>>

\* line 12: genai.configure(api_key=api_key)
GenConfigure ==
    /\ pc = "g_configure"
    /\ \/ /\ config' = api_key
          /\ pc' = "g_model"
          /\ UNCHANGED <<exc, raised_at>>
       \/ /\ \E msg \in Msgs : ToHandler("configure", msg)
          /\ UNCHANGED config
    /\ UNCHANGED <<inputs, ui, model_name, prompt, resp, ret, outcome, callsnap>>

\* lines 17-19: model_name, st.info, genai.GenerativeModel(model_name)
GenModel ==
    /\ pc = "g_model"
    /\ model_name' = ModelName
    /\ ui' = Show(ui, "info", <<"Using model: ", ModelName>>)
    /\ \/ /\ pc' = "g_generate"
          /\ UNCHANGED <<exc, raised_at>>
       \/ \E msg \in Msgs : ToHandler("model", msg)
    /\ UNCHANGED <<inputs, config, prompt, resp, ret, outcome, callsnap>>

\* lines 23-44: the prompt and model.generate_content(prompt)
GenGenerate ==
    /\ pc = "g_generate"
    /\ prompt' = BuildPrompt(recipe_topic, word_count)
    /\ \/ /\ pc' = "g_text"
          /\ UNCHANGED <<exc, raised_at>>
       \/ \E msg \in Msgs : ToHandler("generate_content", msg)
    /\ UNCHANGED <<inputs, ui, config, model_name, resp, ret, outcome, callsnap>>

\* lines 47-50, 64-66: return response.text, or one of the two inner handlers
GenText ==
    /\ pc = "g_text"
    /\ \E t \in {[kind |-> "ok", value |-> x] : x \in Texts}
                \cup {[kind |-> "ValueError", value |-> <<>>]}
                \cup {[kind |-> "Exception", value |-> m] : m \in Msgs} :
         LET r == TextResult(t) IN
         /\ resp' = [resp EXCEPT !.text = t]
         /\ pc' = r.next
         /\ IF r.next = "returned"
            THEN ret' = r.value /\ outcome' = "returned"
            ELSE UNCHANGED <<ret, outcome>>
    /\ UNCHANGED <<inputs, ui, config, model_name, prompt, exc, raised_at, callsnap>>

\* lines 53-58: the block reason, "Unknown" on AttributeError, and st.warning
GenReason ==
    /\ pc = "g_reason"
    /\ \/ \E r \in {[kind |-> "ok", value |-> <<n>>] : n \in ReasonNames}
                   \cup {[kind |-> "AttributeError", value |-> <<>>]} :
            LET reason == IF r.kind = "ok" THEN r.value ELSE <<"Unknown">> IN
            /\ resp' = [resp EXCEPT !.reason = r]
            /\ ui' = Show(ui, "warning",
                          <<"Content generation potentially blocked. Reason: ">> \o reason)
            /\ pc' = "g_parts"
            /\ UNCHANGED <<exc, raised_at>>
       \/ \E msg \in Msgs :
            /\ resp' = [resp EXCEPT !.reason = [kind |-> "Exception", value |-> msg]]
            /\ ToHandler("block_reason", msg)
            /\ UNCHANGED ui
    /\ UNCHANGED <<inputs, config, model_name, prompt, ret, outcome, callsnap>>

\* the value of `reason` after lines 53-57
Reason == IF resp.reason.kind = "ok" THEN resp.reason.value ELSE <<"Unknown">>

\* lines 60-63: partial content, or none
GenParts ==
    /\ pc = "g_parts"
    /\ \/ \E ps \in {<<>>} \cup {<<[text |-> x]>> : x \in Texts} :
            /\ resp' = [resp EXCEPT !.parts = [kind |-> "ok", value |-> ps]]
            /\ ret' = IF ps # <<>> THEN PartialWarning(Reason, ps[1].text)
                      ELSE BlockedError(Reason)
            /\ outcome' = "returned"
            /\ pc' = "returned"
            /\ UNCHANGED <<exc, raised_at>>
       \/ \E msg \in Msgs :
            /\ resp' = [resp EXCEPT !.parts = [kind |-> "Exception", value |-> <<>>]]
            /\ ToHandler("parts", msg)
            /\ UNCHANGED <<ret, outcome>>
    /\ UNCHANGED <<inputs, ui, config, model_name, prompt, callsnap>>

\* lines 69-80: the outer handler
GenExcept ==
    /\ pc = "g_except"
    /\ ui' = Show(ui, "error", <<"An error occurred during API call or processing: ">> \o exc)
    /\ LET m == ErrorMessage(exc, model_name) IN
       IF m.raised
       THEN /\ outcome' = "raised"
            /\ pc' = "aborted"
            /\ UNCHANGED ret
       ELSE /\ ret' = m.value
            /\ outcome' = "returned"
            /\ pc' = "returned"
    /\ UNCHANGED <<inputs, config, model_name, prompt, resp, exc, raised_at, callsnap>>

\* lines 109-119: the subheader and the styled result
Display ==
    /\ pc = "returned"
    /\ LET el == ResultElement(ret) IN
       ui' = Show(Show(ui, "subheader", <<"Generated Recipe Blog Post:">>), el.kind, el.body)
    /\ pc' = "footer"
    /\ UNCHANGED <<inputs, config, locals, callsnap>>

\* lines 123-124
Footer ==
    /\ pc = "footer"
    /\ ui' = Show(Show(ui, "markdown", <<"---">>),
                  "caption", <<"Powered by Google Generative AI & Streamlit">>)
    /\ pc' = "end"
    /\ UNCHANGED <<inputs, config, locals, callsnap>>

\* the user changes a widget or presses the button: the script runs again
\* from the top with the widgets' new values (lines 88-95); the page is rebuilt,
\* the process (and with it the client configuration) lives on
Interact ==
    /\ pc \in {"end", "aborted"}
    /\ api_key' \in Keys
    /\ recipe_topic' \in Topics
    /\ word_count' \in WordCounts
    /\ generate_button' \in BOOLEAN
    /\ ui' = <<>>
    /\ pc' = "start"
    /\ model_name' = Unbound
    /\ prompt' = <<>>
    /\ resp' = NoResponse
    /\ exc' = <<>>
    /\ raised_at' = "none"
    /\ ret' = <<>>
    /\ outcome' = "none"
    /\ invoked' = FALSE
    /\ ui_at_call' = <<>>
    /\ config_at_call' = Unset
    /\ UNCHANGED config

Next ==
    \/ Render
    \/ OutputArea
    \/ GenConfigure
    \/ GenModel
    \/ GenGenerate
    \/ GenText
    \/ GenReason
    \/ GenParts
    \/ GenExcept
    \/ Display
    \/ Footer
    \/ Interact

Spec == Init /\ [][Next]_vars

----------------------------------------------------------------------------
(* Properties *)

CallEnded == outcome # "none"
HandlerRan == CallEnded /\ raised_at # "none"

\* C1: generate_recipe_blog never lets an exception reach its caller: whatever
\* step fails and whatever the exception's text, the call ends by returning a
\* string.
C1_NeverPropagates == CallEnded => outcome = "returned"

\* C2: when response.text is readable, the returned string is exactly that
\* text, also when it is empty or begins with "Error:" or "Warning:".
C2_TextUnmodified ==
    (CallEnded /\ resp.text.kind = "ok") => (outcome = "returned" /\ ret = resp.text.value)

C2_Witness ==
    /\ pc = "returned"
    /\ resp.text.kind = "ok"
    /\ resp.text.value = <<"Error:", "## Cake">>
    /\ ret = <<"Error:", "## Cake">>

\* C3: an exception whose text contains "API key not valid" always yields the
\* invalid-credential error string, whatever else the text contains.
C3_InvalidKeyWins ==
    (HandlerRan /\ Contains(<<"API key not valid">>, exc)) =>
        /\ outcome = "returned"
        /\ ret = <<"Error:", " The provided Google API Key is invalid. Please check and try again.">>

C3_Witness ==
    /\ pc = "returned"
    /\ raised_at = "generate_content"
    /\ Contains(<<"API key not valid">>, exc)
    /\ Contains(<<"Permission">>, exc)
    /\ Contains(<<"404">>, exc)
    /\ Contains(<<"models/">>, exc)
    /\ StartsWith(ret, <<"Error:">>)

\* the model-not-found string: names the model, embeds the original message
IsModelNotFound(s, e) ==
    /\ StartsWith(s, <<"Error:", " Model '", "gemini-1.5-pro-latest">>)
    /\ Len(s) = 4 + Len(e)
    /\ SubSeq(s, 5, Len(s)) = e

\* C4 as stated: when the API call raises an exception whose text contains
\* both "404" and "models/", the model-not-found string is returned.
C4_Original ==
    (CallEnded /\ raised_at = "generate_content"
        /\ Contains(<<"404">>, exc) /\ Contains(<<"models/">>, exc)) =>
        (outcome = "returned" /\ IsModelNotFound(ret, exc))

\* C4 amended: when the API call raises an exception whose text contains both
\* "404" and "models/" and contains neither "API key not valid" nor, in any
\* letter case, "permission", the model-not-found string is returned; it names
\* the model and embeds the original message.
C4_ModelNotFound ==
    (CallEnded /\ raised_at = "generate_content"
        /\ Contains(<<"404">>, exc) /\ Contains(<<"models/">>, exc)
        /\ ~Contains(<<"API key not valid">>, exc)
        /\ ~Contains(<<"permission">>, Lower(exc))) =>
        (outcome = "returned" /\ IsModelNotFound(ret, exc))

C4_Witness ==
    /\ pc = "returned"
    /\ raised_at = "generate_content"
    /\ exc = <<"404", "models/">>
    /\ IsModelNotFound(ret, exc)

BlockedRead == CallEnded /\ resp.text.kind = "ValueError" /\ resp.parts.kind = "ok"

\* the block reason named in the result: its name when the read of
\* prompt_feedback.block_reason.name gave one, "Unknown" when it raised
\* AttributeError
NamesReason(s) ==
    /\ resp.reason.kind = "ok" => Contains(resp.reason.value, s)
    /\ resp.reason.kind = "AttributeError" => Contains(<<"Unknown">>, s)
    /\ resp.reason.kind \in {"ok", "AttributeError"}

\* C5: a blocked response (response.text raises ValueError) with no parts
\* yields an "Error:" string that names the block reason, or "Unknown", and
\* says that no content is available.
C5_BlockedNoParts ==
    (BlockedRead /\ resp.parts.value = <<>>) =>
        /\ outcome = "returned"
        /\ StartsWith(ret, <<"Error:">>)
        /\ NamesReason(ret)
        /\ Contains(<<"). No content available.">>, ret)

C5_Witness ==
    /\ pc = "returned"
    /\ resp.text.kind = "ValueError"
    /\ resp.reason = [kind |-> "ok", value |-> <<"SAFETY">>]
    /\ resp.parts = [kind |-> "ok", value |-> <<>>]
    /\ Contains(<<"SAFETY">>, ret)

\* C6: a blocked response with a partial part yields a "Warning:" string that
\* names the block reason and holds the text of the first part.
C6_BlockedPartial ==
    (BlockedRead /\ resp.parts.value # <<>>) =>
        /\ outcome = "returned"
        /\ StartsWith(ret, <<"Warning:">>)
        /\ NamesReason(ret)
        /\ Contains(resp.parts.value[1].text, ret)
        /\ SubSeq(ret, Len(ret) - Len(resp.parts.value[1].text) + 1, Len(ret))
              = resp.parts.value[1].text

C6_Witness ==
    /\ pc = "returned"
    /\ resp.text.kind = "ValueError"
    /\ resp.reason.kind = "AttributeError"
    /\ resp.parts = [kind |-> "ok", value |-> <<[text |-> <<"## Cake", "## Cake">>]>>]
    /\ StartsWith(ret, <<"Warning:">>)

HasWarning == \E i \in 1..Len(ui) : ui[i].kind = "warning"

\* C7: the generator is invoked only in a run in which the button was pressed
\* and credential and topic are both non-empty; a press with an empty topic or
\* a missing credential never invokes it and shows a warning instead.
C7_GuardedInvocation ==
    /\ invoked => (generate_button /\ api_key # "" /\ recipe_topic # <<>>)
    /\ (api_key = "" \/ recipe_topic = <<>>) =>
          /\ ~invoked
          /\ pc \in {"start", "output", "footer", "end"}
          /\ (generate_button /\ pc \in {"footer", "end"}) => HasWarning

C7_Witness ==
    /\ pc = "end"
    /\ generate_button
    /\ api_key # ""
    /\ recipe_topic = <<>>
    /\ ~invoked
    /\ HasWarning

AtReturn == pc \in {"returned", "aborted"}

DigitValue(a) == CHOOSE d \in 0..9 : Digits[d + 1] = a

RECURSIVE Value(_)
Value(s) == IF s = <<>> THEN 0
            ELSE 10 * Value(SubSeq(s, 1, Len(s) - 1)) + DigitValue(s[Len(s)])

\* s is the decimal numeral of n
IsDecimalOf(s, n) ==
    /\ Len(s) >= 1
    /\ \A i \in 1..Len(s) : \E d \in 1..10 : Digits[d] = s[i]
    /\ Len(s) > 1 => s[1] # "0"
    /\ Value(s) = n

\* generate_content has been called (line 44)
PromptSent ==
    \/ pc = "g_text"
    \/ resp.text.kind # "unread"
    \/ raised_at \in {"generate_content", "block_reason", "parts"}

\* C9: the prompt handed to generate_content contains the topic verbatim and
\* the decimal numeral of word_count.
C9_PromptEmbedsInputs ==
    PromptSent =>
        /\ Contains(recipe_topic, prompt)
        /\ \E i \in 1..Len(prompt) : \E j \in i..Len(prompt) :
              IsDecimalOf(SubSeq(prompt, i, j), word_count)

C9_Witness ==
    /\ pc = "g_text"
    /\ recipe_topic = <<"7", "Cake">>
    /\ word_count = 2905
    /\ Contains(<<"2", "9", "0", "5">>, prompt)

\* the outcome of the call, by the path it took
Category ==
    IF raised_at # "none" THEN "error"
    ELSE IF resp.text.kind = "ok"
         THEN IF resp.text.value = <<>> THEN "empty_response" ELSE "success"
    ELSE IF resp.text.kind = "Exception" THEN "error"
    ELSE IF resp.parts.value # <<>> THEN "blocked_partial" ELSE "blocked_no_content"

\* C10: the result is styled by the outcome's category: as an error exactly for
\* the error categories, as a warning exactly for blocked-with-partial-content,
\* as Markdown exactly for a successful generation with non-empty text.
C10_StyleMatchesCategory ==
    (invoked /\ pc = "footer") =>
        LET k == ui[Len(ui)].kind IN
        /\ k = "error" <=> Category \in {"error", "blocked_no_content", "empty_response"}
        /\ k = "warning" <=> Category = "blocked_partial"
        /\ k = "markdown" <=> Category = "success"

====
